---- MODULE Spec2Model ----
(***************************************************************************)
(* jack-bridge-local (src/jack-bridge-local/src/main.cpp): the JackManager *)
(* connection lifecycle, the HttpServer request workers, the watchdog loop *)
(* of main and the engine's shutdown notification, over an abstract JACK   *)
(* engine. The Windows-container variant (src/jack-bridge/src/            *)
(* main-windows.cpp) and the subprocess variant (src/jack-bridge/src/     *)
(* main.cpp) are modelled in sections of their own near the end.           *)
(*                                                                         *)
(* Granularity: a thread takes one step per synchronisation point: the     *)
(* lock acquisition, each entry into an engine call, and the return from   *)
(* it together with the thread-local code that follows, up to the next    *)
(* engine call or the return of the operation.                             *)
(***************************************************************************)
EXTENDS Integers, FiniteSets, Sequences, TLC

\* ---- bounds ----
NumWorkers == 1
NumCallers == 2
MaxHandles == 2
NumPairs == 1

\* ---- program constants ----
CheckEvery == 30

Main == 0
Workers == 1..NumWorkers
\* the threads that call JackManager directly in ApiSpec
Callers == 1..NumCallers
\* the request thread of RouteSpec
Server == 1
\* the two request threads of ConnectSpec
Clients == {1, 2}
MaxThread ==
    LET m == IF NumWorkers > NumCallers THEN NumWorkers ELSE NumCallers IN
    IF m < 2 THEN 2 ELSE m
Threads == 0..MaxThread
\* the threads that can run handleClient
Handlers == Threads \ {Main}
None == -1
Handles == 1..MaxHandles
\* pair 0 names ports the engine does not know; 1..NumPairs are valid pairs
Pairs == 0..NumPairs
\* main-windows.cpp: main, the thread of ConsoleHandler, the request threads
Console == MaxThread + 1
WinThreads == {Main, Console} \cup Workers
\* the run of the engine command before any run; a request without a body;
\* no response body; no timestamp
NoRun == [started |-> FALSE, established |-> FALSE, out |-> <<>>]
NoBodyReq == [sep |-> FALSE, source |-> FALSE, destination |-> FALSE]
NoBody == [kind |-> "none", success |-> FALSE, already_connected |-> FALSE]
NoStamp == [local |-> <<>>, windows |-> <<>>]

VARIABLES
    g_jackClient,       \* 0 is nullptr, otherwise the handle
    g_jackRunning,
    g_serviceRunning,
    mutexOwner,         \* g_jackMutex: None or the owning thread
    op, pc, ret, hnd, arg,   \* per thread: JackManager operation in progress
    entry,              \* per thread: connection state when it got the lock
    ctx,                \* per thread: position in main / handleClient
    req, resp,          \* per worker: request read, response being built
    statusCheckCounter,
    running,            \* HttpServer::running
    serverThread,       \* the thread of serverLoop: none, loop, joined
    handlerPc,          \* the thread of consoleHandler: none, join, done
    serverSocket,       \* HttpServer::serverSocket: invalid (INVALID_SOCKET) or open
    nSocket, nClosesocket,      \* calls of socket() that succeeded, of closesocket
    nWSAStartup, nWSACleanup,   \* calls of WSAStartup that succeeded, of WSACleanup
    \* the Windows-container variant (src/jack-bridge/src/main-windows.cpp)
    jack_client,        \* 0 is nullptr, otherwise the handle
    jack_running,
    jack_mutex,         \* None or the owning thread
    g_running,
    winPc,              \* per thread: position in main, ConsoleHandler, handleRequest
    winReq,             \* per thread: the handler processRequest chose
    winHnd,             \* per thread: the handle it passes to the engine
    winRet,             \* per thread: what checkJackConnection returned
    \* the subprocess variant (src/jack-bridge/src/main.cpp)
    cmdRun,             \* how the run of the engine command goes
    cmdReq,             \* the request handleConnect reads
    cmdBody,            \* the body it returns
    \* getCurrentTimestamp
    now,                \* the instant: milliseconds within the second
    stamp,              \* the fraction digits formatted, per variant
    engineUp, live, alive, conns, cb   \* the JACK engine

mgrVars == <<g_jackClient, g_jackRunning, mutexOwner>>
thrVars == <<op, pc, ret, hnd, arg, entry>>
sockVars == <<serverSocket, nSocket, nClosesocket, nWSAStartup, nWSACleanup>>
winVars == <<jack_client, jack_running, jack_mutex, g_running,
             winPc, winReq, winHnd, winRet>>
cmdVars == <<cmdRun, cmdReq, cmdBody>>
timeVars == <<now, stamp>>
\* the state of the other variants and of the formatting, which no step of
\* jack-bridge-local touches
variantVars == <<winVars, cmdVars, timeVars>>
srvVars == <<running, serverThread, handlerPc, sockVars, variantVars>>
progVars == <<ctx, req, resp, statusCheckCounter, g_serviceRunning, srvVars>>
engVars == <<engineUp, live, alive, conns, cb>>
vars == <<mgrVars, thrVars, progVars, engVars>>

OpNames == {"initialize", "shutdown", "isRunning", "getPorts", "getConnections",
            "connectPorts", "disconnectPorts", "clearAllConnections", "getJackInfo"}

\* positions at which a thread is inside an engine call
EnginePcs == {"open", "callbacks", "activate", "close", "probe", "get_ports",
              "get_connections", "connect", "disconnect", "get_info"}

\* positions of a thread inside an operation, between engine calls
LocalPcs == {"body", "activated", "sr_pos", "sr_zero", "probed", "relock"}

InEngine(t) == pc[t] \in EnginePcs

\* what an operation hands to its caller: the value returned (ok, items) or
\* the exception thrown (exc). code is not part of it: it records the result
\* of the operation's last jack_connect or jack_disconnect, which the bool
\* returned does not carry.
RetVal(b, s) == [ok |-> b, exc |-> FALSE, items |-> s, code |-> "none"]
RetExc == [ok |-> FALSE, exc |-> TRUE, items |-> {}, code |-> "none"]
RetCode(b, c) == [ok |-> b, exc |-> FALSE, items |-> {}, code |-> c]

NoEntry == [client |-> 0, running |-> FALSE]
\* a request as processRequest and the handlers read it: method and path of
\* the request line; whether a blank line separates a body; whether the body
\* holds a non-empty string value for "source" and for "destination"; the
\* pair of ports these name
NoReq == [method |-> "none", path |-> "none", sep |-> FALSE,
          source |-> FALSE, destination |-> FALSE, pair |-> 0]
Methods == {"GET", "POST", "OPTIONS"}
Paths == {"/health", "/status", "/ports", "/connections",
          "/connect", "/disconnect", "/clear", "/bogus"}
BodyPaths == {"/connect", "/disconnect"}
AllRequests ==
    {[method |-> m, path |-> p, sep |-> FALSE, source |-> FALSE,
      destination |-> FALSE, pair |-> 0] : m \in Methods, p \in Paths}
    \cup {[method |-> "POST", path |-> p, sep |-> TRUE, source |-> a,
           destination |-> b, pair |-> 0] :
              p \in BodyPaths, a \in BOOLEAN, b \in BOOLEAN}
    \cup {[method |-> "POST", path |-> p, sep |-> TRUE, source |-> TRUE,
           destination |-> TRUE, pair |-> q] : p \in BodyPaths, q \in Pairs}
\* the requests a client of the documented API sends: GET or POST as
\* documented for the path, OPTIONS, or a path that does not exist
Documented(r) ==
    \/ r.method = "OPTIONS"
    \/ r.path = "/bogus"
    \/ r.method = "GET" /\ r.path \in {"/health", "/status", "/ports", "/connections"}
    \/ r.method = "POST" /\ r.path \in {"/connect", "/disconnect", "/clear"}
Requests == {r \in AllRequests : Documented(r)}
PairRequests == {r \in Requests : r.method = "POST" /\ r.path \in BodyPaths}

\* variant: the path is looked at before the method
Route_PathFirst(m, p) ==
    IF p = "/health" THEN "health"
    ELSE IF p = "/status" THEN "status"
    ELSE IF p = "/ports" THEN "ports"
    ELSE IF p = "/connections" THEN "connections"
    ELSE IF m = "OPTIONS" THEN "options"
    ELSE IF p = "/connect" /\ m = "POST" THEN "connect"
    ELSE IF p = "/disconnect" /\ m = "POST" THEN "disconnect"
    ELSE IF p = "/clear" /\ m = "POST" THEN "clear"
    ELSE "notfound"

\* the if-chain of processRequest: the handler a request is routed to
Route(m, p) ==
    IF m = "OPTIONS" THEN "options"
    ELSE IF p = "/health" THEN "health"
    ELSE IF p = "/status" THEN "status"
    ELSE IF p = "/ports" THEN "ports"
    ELSE IF p = "/connections" THEN "connections"
    ELSE IF p = "/connect" /\ m = "POST" THEN "connect"
    ELSE IF p = "/disconnect" /\ m = "POST" THEN "disconnect"
    ELSE IF p = "/clear" /\ m = "POST" THEN "clear"
    ELSE "notfound"
Kind(r) == Route(r.method, r.path)

\* ---- the response ----
CorsHeaders == {"Access-Control-Allow-Origin", "Access-Control-Allow-Methods",
                "Access-Control-Allow-Headers"}
NoResp == [kind |-> "none", ok |-> FALSE, meta |-> "none", count |-> None,
           keys |-> <<>>, status |-> "none", cors |-> {}, ctype |-> "none",
           clen |-> 0]

\* line 482: a.substr(1, b.length() - 2), a and b the results of two calls of
\* getJackInfo(): the members of a without its braces when both are the
\* full object; nothing when b is "{}" or both are; "}" when only a is "{}"
InfoSlice(a, b) ==
    CASE a = "info" /\ b = "info" -> "info"
      [] a = "{}" /\ b = "info" -> "brace"
      [] OTHER -> "empty"

\* the keys of the JSON body a handler writes, in order; "" stands for an
\* empty member (two commas in a row), "}" for a closing brace in the middle
\* of the object
BodyKeys(k, m) ==
    CASE k = "empty" -> <<>>
      [] k = "notfound" -> <<"error", "path">>
      [] k = "error" -> <<"error", "message">>
      [] k = "health" -> <<"status", "service", "version", "jack_running",
                           "platform", "api", "timestamp">>
      [] k = "status" ->
            <<"success", "jack_running", "method">>
            \o (CASE m = "info" -> <<"sample_rate", "buffer_size", "client_name">>
                  [] m = "empty" -> <<"">>
                  [] m = "brace" -> <<"}">>
                  [] OTHER -> <<>>)
            \o <<"timestamp">>
      [] k \in {"notrunning", "nobody", "nofield"} -> <<"success", "error">>
      [] k \in {"ports", "connections"} ->
            <<"success", k, "count", "method", "timestamp">>
      [] k \in {"connect", "disconnect"} ->
            <<"success", "message", "method", "timestamp">>
      [] k = "clear" -> <<"success", "message", "count", "method", "timestamp">>

\* variant: the internal error body goes out with another status line
HttpResponse_ErrorStatus(k, b, m, c) ==
    LET body == BodyKeys(k, m) IN
    [kind |-> k, ok |-> b, meta |-> m, count |-> c, keys |-> body,
     status |-> IF k = "error" THEN "HTTP/1.1 500 Internal Server Error"
                ELSE "HTTP/1.1 200 OK",
     cors |-> CorsHeaders, ctype |-> "application/json", clen |-> Len(body)]

\* processRequest wraps the body of every branch, the catch included
HttpResponse(k, b, m, c) ==
    LET body == BodyKeys(k, m) IN
    [kind |-> k, ok |-> b, meta |-> m, count |-> c, keys |-> body,
     status |-> "HTTP/1.1 200 OK", cors |-> CorsHeaders,
     ctype |-> "application/json", clen |-> Len(body)]

\* ---- the engine, as the jack_* calls of JackManager observe it ----
OpenOk == engineUp

\* the handle values jack_client_open can return: not one that is open, and
\* not one the program still holds a pointer to
Referenced == live \cup {g_jackClient} \cup {hnd[t] : t \in Threads}
FreshHandles ==
    LET free == Handles \ Referenced IN
    {h \in free : \A g \in free : h <= g}
ActivateOk(h) == h \in alive
ProbeOk(h) == h \in alive
PortSet(h) == IF h \in alive THEN {1, 2} ELSE {}
ConnSet(h) == IF h \in alive THEN conns ELSE {}
ConnectResult(h, p) ==
    IF h \notin alive \/ p = 0 THEN "error"
    ELSE IF p \in conns THEN "EEXIST" ELSE "0"
DisconnectResult(h, p) ==
    IF h \in alive /\ p \in conns THEN "0" ELSE "error"

\* the Windows-container variant before main starts
WinInit ==
    /\ jack_client = 0
    /\ jack_running = FALSE
    /\ jack_mutex = None
    /\ g_running = TRUE
    /\ winPc = [t \in WinThreads |-> IF t = Main THEN "start" ELSE "idle"]
    /\ winReq = [t \in WinThreads |-> "none"]
    /\ winHnd = [t \in WinThreads |-> 0]
    /\ winRet = [t \in WinThreads |-> FALSE]

\* no command has been run, no instant has been formatted
CmdIdle == cmdRun = NoRun /\ cmdReq = NoBodyReq /\ cmdBody = NoBody
TimeIdle == now = 0 /\ stamp = NoStamp

LocalInit ==
    /\ g_jackClient = 0
    /\ g_jackRunning = FALSE
    /\ g_serviceRunning = TRUE
    /\ mutexOwner = None
    /\ op = [t \in Threads |-> "none"]
    /\ pc = [t \in Threads |-> "idle"]
    /\ ret = [t \in Threads |-> RetVal(FALSE, {})]
    /\ hnd = [t \in Threads |-> 0]
    /\ arg = [t \in Threads |-> 0]
    /\ entry = [t \in Threads |-> NoEntry]
    /\ ctx = [t \in Threads |-> IF t = Main THEN "start" ELSE "idle"]
    /\ req = [w \in Handlers |-> NoReq]
    /\ resp = [w \in Handlers |-> NoResp]
    /\ statusCheckCounter = 0
    /\ running = FALSE
    /\ serverThread = "none"
    /\ handlerPc = "none"
    /\ serverSocket = "invalid"
    /\ nSocket = 0
    /\ nClosesocket = 0
    /\ nWSAStartup = 0
    /\ nWSACleanup = 0
    /\ engineUp \in BOOLEAN
    /\ live = {}
    /\ alive = {}
    /\ conns = {}
    /\ cb = "none"

Init == LocalInit /\ WinInit /\ CmdIdle /\ TimeIdle

\* A caller consumes the result of an operation with steps that read and
\* write only its own locals. They are taken at once after the return: no
\* step of another thread is interleaved between a return and the caller's
\* use of the result, since it would commute with it.
Pending(t) == pc[t] = "ret" \/ ctx[t] \in {"respond", "stopped"}

\* the process runs until main returns or std::terminate ends it
ProcessAlive == ctx[Main] \notin {"exited", "aborted", "terminated"}

Quiet == ProcessAlive /\ \A t \in Threads : ~Pending(t)

\* thread t is at position p and may take its step
At(t, p) == Quiet /\ pc[t] = p

\* ---- std::lock_guard<std::mutex> lock(g_jackMutex) ----
\* variant: the lock is taken without waiting for its owner
CanLock_Always(t) == TRUE

CanLock(t) == mutexOwner = None

Lock(t) ==
    /\ At(t, "lock")
    /\ CanLock(t)
    /\ mutexOwner' = t
    /\ pc' = [pc EXCEPT ![t] = "body"]
    /\ entry' = [entry EXCEPT ![t] = [client |-> g_jackClient, running |-> g_jackRunning]]
    /\ UNCHANGED <<g_jackClient, g_jackRunning, op, ret, hnd, arg, progVars, engVars>>

\* variant: the operation returns without unlocking
Return_KeepsLock(t, r) ==
    /\ pc' = [pc EXCEPT ![t] = "ret"]
    /\ ret' = [ret EXCEPT ![t] = r]
    /\ hnd' = [hnd EXCEPT ![t] = 0]
    /\ UNCHANGED <<mutexOwner, entry>>

\* return from an operation: the lock_guard destructor unlocks
Return(t, r) ==
    /\ pc' = [pc EXCEPT ![t] = "ret"]
    /\ ret' = [ret EXCEPT ![t] = r]
    /\ hnd' = [hnd EXCEPT ![t] = 0]
    /\ mutexOwner' = None
    /\ UNCHANGED entry

\* enter the engine call at position p on the current handle
Enter(t, p) ==
    /\ pc' = [pc EXCEPT ![t] = p]
    /\ hnd' = [hnd EXCEPT ![t] = g_jackClient]
    /\ UNCHANGED <<ret, mutexOwner, entry>>

AtBody(t, o) == At(t, "body") /\ op[t] = o

\* ---- JackManager::initialize ----
\* variant: without the early return for an existing handle
InitializeEnter_NoCheck(t) ==
    /\ AtBody(t, "initialize")
    /\ Enter(t, "open")
    /\ UNCHANGED <<g_jackClient, g_jackRunning, op, arg, progVars, engVars>>

InitializeEnter(t) ==
    /\ AtBody(t, "initialize")
    /\ IF g_jackClient # 0
         THEN Return(t, RetVal(TRUE, {}))
         ELSE Enter(t, "open")
    /\ UNCHANGED <<g_jackClient, g_jackRunning, op, arg, progVars, engVars>>

\* g_jackClient = jack_client_open(...); a null result returns false
InitializeOpened(t) ==
    /\ At(t, "open")
    /\ IF OpenOk
         THEN \E h \in FreshHandles :
                /\ live' = live \cup {h}
                /\ alive' = alive \cup {h}
                /\ g_jackClient' = h
                /\ pc' = [pc EXCEPT ![t] = "callbacks"]
                /\ hnd' = [hnd EXCEPT ![t] = h]
                /\ UNCHANGED <<ret, mutexOwner, entry>>
         ELSE /\ g_jackClient' = 0
              /\ Return(t, RetVal(FALSE, {}))
              /\ UNCHANGED <<live, alive>>
    /\ UNCHANGED <<g_jackRunning, op, arg, progVars, engineUp, conns, cb>>

\* jack_set_process_callback, jack_on_shutdown, then into jack_activate
InitializeCallbacksSet(t) ==
    /\ At(t, "callbacks")
    /\ cb' = "armed"
    /\ Enter(t, "activate")
    /\ UNCHANGED <<g_jackClient, g_jackRunning, op, arg, progVars,
                   engineUp, live, alive, conns>>

\* jack_activate returns; nonzero leads into jack_client_close
InitializeActivated(t) ==
    /\ At(t, "activate")
    /\ IF ActivateOk(hnd[t])
         THEN /\ pc' = [pc EXCEPT ![t] = "activated"]
              /\ UNCHANGED <<ret, hnd, entry, mutexOwner>>
         ELSE Enter(t, "close")
    /\ UNCHANGED <<g_jackClient, g_jackRunning, op, arg, progVars, engVars>>

\* g_jackRunning = true; return true
InitializeRunning(t) ==
    /\ At(t, "activated")
    /\ g_jackRunning' = TRUE
    /\ Return(t, RetVal(TRUE, {}))
    /\ UNCHANGED <<g_jackClient, op, arg, progVars, engVars>>

\* the activation failure path: jack_client_close; g_jackClient = nullptr
InitializeClosed(t) ==
    /\ At(t, "close") /\ op[t] = "initialize"
    /\ live' = live \ {hnd[t]}
    /\ alive' = alive \ {hnd[t]}
    /\ cb' = "none"
    /\ g_jackClient' = 0
    /\ Return(t, RetVal(FALSE, {}))
    /\ UNCHANGED <<g_jackRunning, op, arg, progVars, engineUp, conns>>

\* ---- JackManager::shutdown ----
ShutdownEnter(t) ==
    /\ AtBody(t, "shutdown")
    /\ IF g_jackClient # 0
         THEN Enter(t, "close")
         ELSE Return(t, RetVal(TRUE, {}))
    /\ UNCHANGED <<g_jackClient, g_jackRunning, op, arg, progVars, engVars>>

\* variant: shutdown leaves the running flag set
ShutdownClosed_KeepsRunning(t) ==
    /\ At(t, "close") /\ op[t] = "shutdown"
    /\ live' = live \ {hnd[t]}
    /\ alive' = alive \ {hnd[t]}
    /\ cb' = "none"
    /\ g_jackClient' = 0
    /\ Return(t, RetVal(TRUE, {}))
    /\ UNCHANGED <<g_jackRunning, op, arg, progVars, engineUp, conns>>

\* variant: the pointer is not reset after the close
ShutdownClosed_KeepsHandle(t) ==
    /\ At(t, "close") /\ op[t] = "shutdown"
    /\ live' = live \ {hnd[t]}
    /\ alive' = alive \ {hnd[t]}
    /\ cb' = "none"
    /\ g_jackRunning' = FALSE
    /\ Return(t, RetVal(TRUE, {}))
    /\ UNCHANGED <<g_jackClient, op, arg, progVars, engineUp, conns>>

ShutdownClosed(t) ==
    /\ At(t, "close") /\ op[t] = "shutdown"
    /\ live' = live \ {hnd[t]}
    /\ alive' = alive \ {hnd[t]}
    /\ cb' = "none"
    /\ g_jackClient' = 0
    /\ g_jackRunning' = FALSE
    /\ Return(t, RetVal(TRUE, {}))
    /\ UNCHANGED <<op, arg, progVars, engineUp, conns>>

\* ---- JackManager::isRunning ----
IsRunningEnter(t) ==
    /\ AtBody(t, "isRunning")
    /\ IF g_jackClient = 0
         THEN Return(t, RetVal(FALSE, {}))
         ELSE Enter(t, "probe")
    /\ UNCHANGED <<g_jackClient, g_jackRunning, op, arg, progVars, engVars>>

\* jack_get_sample_rate returns sr (or throws)
IsRunningProbed(t) ==
    /\ At(t, "probe")
    /\ pc' = [pc EXCEPT ![t] = IF ProbeOk(hnd[t]) THEN "sr_pos" ELSE "sr_zero"]
    /\ UNCHANGED <<mgrVars, op, ret, hnd, entry, arg, progVars, engVars>>

\* variant: a failed probe also drops the pointer
IsRunningStore_Discards(t) ==
    /\ Quiet
    /\ pc[t] \in {"sr_pos", "sr_zero"}
    /\ g_jackRunning' = (pc[t] = "sr_pos")
    /\ g_jackClient' = IF pc[t] = "sr_zero" THEN 0 ELSE g_jackClient
    /\ pc' = [pc EXCEPT ![t] = "probed"]
    /\ UNCHANGED <<mutexOwner, op, ret, hnd, entry, arg, progVars, engVars>>

\* g_jackRunning = (sr > 0); the catch branch stores false and returns false
IsRunningStore(t) ==
    /\ Quiet
    /\ pc[t] \in {"sr_pos", "sr_zero"}
    /\ g_jackRunning' = (pc[t] = "sr_pos")
    /\ pc' = [pc EXCEPT ![t] = "probed"]
    /\ UNCHANGED <<g_jackClient, mutexOwner, op, ret, hnd, entry, arg, progVars, engVars>>

\* return g_jackRunning: the atomic is read again after the store
IsRunningReturn(t) ==
    /\ At(t, "probed")
    /\ Return(t, RetVal(g_jackRunning, {}))
    /\ UNCHANGED <<g_jackClient, g_jackRunning, op, arg, progVars, engVars>>

\* ---- JackManager::getPorts ----
\* variant: a missing handle is an error
GetPortsEnter_ThrowsOnNull(t) ==
    /\ AtBody(t, "getPorts")
    /\ IF g_jackClient = 0
         THEN Return(t, RetExc)
         ELSE Enter(t, "get_ports")
    /\ UNCHANGED <<g_jackClient, g_jackRunning, op, arg, progVars, engVars>>

GetPortsEnter(t) ==
    /\ AtBody(t, "getPorts")
    /\ IF g_jackClient = 0
         THEN Return(t, RetVal(TRUE, {}))
         ELSE Enter(t, "get_ports")
    /\ UNCHANGED <<g_jackClient, g_jackRunning, op, arg, progVars, engVars>>

GetPortsDone(t) ==
    /\ At(t, "get_ports")
    /\ Return(t, RetVal(TRUE, PortSet(hnd[t])))
    /\ UNCHANGED <<g_jackClient, g_jackRunning, op, arg, progVars, engVars>>

\* ---- JackManager::getConnections ----
GetConnectionsEnter(t) ==
    /\ AtBody(t, "getConnections")
    /\ IF g_jackClient = 0
         THEN Return(t, RetVal(TRUE, {}))
         ELSE Enter(t, "get_connections")
    /\ UNCHANGED <<g_jackClient, g_jackRunning, op, arg, progVars, engVars>>

GetConnectionsDone(t) ==
    /\ At(t, "get_connections")
    /\ Return(t, RetVal(TRUE, ConnSet(hnd[t])))
    /\ UNCHANGED <<g_jackClient, g_jackRunning, op, arg, progVars, engVars>>

\* ---- JackManager::connectPorts ----
ConnectEnter(t) ==
    /\ AtBody(t, "connectPorts")
    /\ IF g_jackClient = 0
         THEN Return(t, RetVal(FALSE, {}))
         ELSE Enter(t, "connect")
    /\ UNCHANGED <<g_jackClient, g_jackRunning, op, arg, progVars, engVars>>

\* variant: only result 0 returns true
ConnectDone_ExistFails(t) ==
    /\ At(t, "connect")
    /\ LET r == ConnectResult(hnd[t], arg[t]) IN
         /\ conns' = IF r = "0" THEN conns \cup {arg[t]} ELSE conns
         /\ Return(t, RetCode(r = "0", r))
    /\ UNCHANGED <<g_jackClient, g_jackRunning, op, arg, progVars,
                   engineUp, live, alive, cb>>

\* result 0 and EEXIST both return true
ConnectDone(t) ==
    /\ At(t, "connect")
    /\ LET r == ConnectResult(hnd[t], arg[t]) IN
         /\ conns' = IF r = "0" THEN conns \cup {arg[t]} ELSE conns
         /\ Return(t, RetCode(r \in {"0", "EEXIST"}, r))
    /\ UNCHANGED <<g_jackClient, g_jackRunning, op, arg, progVars,
                   engineUp, live, alive, cb>>

\* ---- JackManager::disconnectPorts ----
DisconnectEnter(t) ==
    /\ AtBody(t, "disconnectPorts")
    /\ IF g_jackClient = 0
         THEN Return(t, RetVal(FALSE, {}))
         ELSE Enter(t, "disconnect")
    /\ UNCHANGED <<g_jackClient, g_jackRunning, op, arg, progVars, engVars>>

\* variant: every result returns true
DisconnectDone_AlwaysTrue(t) ==
    /\ At(t, "disconnect")
    /\ LET r == DisconnectResult(hnd[t], arg[t]) IN
         /\ conns' = IF r = "0" THEN conns \ {arg[t]} ELSE conns
         /\ Return(t, RetCode(TRUE, r))
    /\ UNCHANGED <<g_jackClient, g_jackRunning, op, arg, progVars,
                   engineUp, live, alive, cb>>

DisconnectDone(t) ==
    /\ At(t, "disconnect")
    /\ LET r == DisconnectResult(hnd[t], arg[t]) IN
         /\ conns' = IF r = "0" THEN conns \ {arg[t]} ELSE conns
         /\ Return(t, RetCode(r = "0", r))
    /\ UNCHANGED <<g_jackClient, g_jackRunning, op, arg, progVars,
                   engineUp, live, alive, cb>>

\* ---- JackManager::getJackInfo ----
GetJackInfoEnter(t) ==
    /\ AtBody(t, "getJackInfo")
    /\ IF g_jackClient = 0
         THEN Return(t, RetVal(FALSE, {}))
         ELSE Enter(t, "get_info")
    /\ UNCHANGED <<g_jackClient, g_jackRunning, op, arg, progVars, engVars>>

GetJackInfoDone(t) ==
    /\ At(t, "get_info")
    /\ Return(t, RetVal(TRUE, {}))
    /\ UNCHANGED <<g_jackClient, g_jackRunning, op, arg, progVars, engVars>>

\* ---- JackManager::clearAllConnections ----
\* With a handle, line 255 calls getConnections() while this thread already
\* owns g_jackMutex: its lock_guard locks a std::mutex the caller holds.
ClearAllEnter(t) ==
    /\ AtBody(t, "clearAllConnections")
    /\ IF g_jackClient = 0
         THEN Return(t, RetVal(TRUE, {}))
         ELSE /\ pc' = [pc EXCEPT ![t] = "relock"]
              /\ UNCHANGED <<ret, hnd, entry, mutexOwner>>
    /\ UNCHANGED <<g_jackClient, g_jackRunning, op, arg, progVars, engVars>>

\* Locking a std::mutex the thread owns is undefined behaviour. Outcome of
\* the MSVC runtime: lock() throws std::system_error; the exception leaves
\* clearAllConnections and the outer lock_guard unlocks while unwinding.
RelockThrows(t) ==
    /\ At(t, "relock")
    /\ Return(t, RetExc)
    /\ UNCHANGED <<g_jackClient, g_jackRunning, op, arg, progVars, engVars>>

\* Outcome of a pthread or SRW lock based std::mutex: the thread blocks on
\* itself for ever, still owning g_jackMutex.
RelockDeadlocks(t) ==
    /\ At(t, "relock")
    /\ pc' = [pc EXCEPT ![t] = "deadlocked"]
    /\ UNCHANGED <<mgrVars, op, ret, hnd, entry, arg, progVars, engVars>>

\* one step of a JackManager operation that thread t has called
LifecycleStep(t) ==
    \/ InitializeEnter(t) \/ InitializeOpened(t) \/ InitializeCallbacksSet(t)
    \/ InitializeActivated(t) \/ InitializeRunning(t) \/ InitializeClosed(t)
    \/ ShutdownEnter(t) \/ ShutdownClosed(t)

ProbeStep(t) ==
    \/ Lock(t)
    \/ IsRunningEnter(t) \/ IsRunningProbed(t) \/ IsRunningStore(t)
    \/ IsRunningReturn(t)

RoutingStep(t) ==
    \/ GetPortsEnter(t) \/ GetPortsDone(t)
    \/ GetConnectionsEnter(t) \/ GetConnectionsDone(t)
    \/ ConnectEnter(t) \/ ConnectDone(t)
    \/ DisconnectEnter(t) \/ DisconnectDone(t)
    \/ GetJackInfoEnter(t) \/ GetJackInfoDone(t)
    \/ ClearAllEnter(t) \/ RelockThrows(t) \/ RelockDeadlocks(t)

OpStep(t) == LifecycleStep(t) \/ ProbeStep(t) \/ RoutingStep(t)

\* ---- the engine and its notification thread ----
EngineDown ==
    /\ engineUp
    /\ Quiet
    /\ engineUp' = FALSE
    /\ alive' = {}
    /\ conns' = {}
    /\ cb' = IF cb = "armed" THEN "pending" ELSE cb
    /\ UNCHANGED <<mgrVars, thrVars, progVars, live>>

EngineUp ==
    /\ ~engineUp
    /\ Quiet
    /\ engineUp' = TRUE
    /\ UNCHANGED <<mgrVars, thrVars, progVars, live, alive, conns, cb>>

\* runs on the engine's notification thread, without g_jackMutex
jackShutdownCallback ==
    /\ cb = "pending"
    /\ Quiet
    /\ cb' = "none"
    /\ g_jackRunning' = FALSE
    /\ UNCHANGED <<g_jackClient, mutexOwner, thrVars, progVars,
                   engineUp, live, alive, conns>>

\* the caller's side of a call: op and argument set, waiting for the lock
Call(t, o, a) ==
    /\ op' = [op EXCEPT ![t] = o]
    /\ arg' = [arg EXCEPT ![t] = a]
    /\ pc' = [pc EXCEPT ![t] = "lock"]
    /\ UNCHANGED <<ret, hnd, entry>>

\* ---- JackManager under arbitrary callers ----
ApiCall(t) ==
    /\ At(t, "idle")
    /\ \E o \in OpNames, a \in Pairs :
         /\ (o \notin {"connectPorts", "disconnectPorts"} => a = 0)
         /\ Call(t, o, a)
    /\ UNCHANGED <<mgrVars, progVars, engVars>>

\* the caller has the result; the thread is free for its next call
Finish(t) ==
    /\ pc' = [pc EXCEPT ![t] = "idle"]
    /\ op' = [op EXCEPT ![t] = "none"]
    /\ arg' = [arg EXCEPT ![t] = 0]
    /\ ret' = [ret EXCEPT ![t] = RetVal(FALSE, {})]
    /\ entry' = [entry EXCEPT ![t] = NoEntry]
    /\ UNCHANGED hnd

ApiReturn(t) ==
    /\ pc[t] = "ret"
    /\ Finish(t)
    /\ UNCHANGED <<mgrVars, progVars, engVars>>

ApiNext ==
    \/ \E t \in Callers : ApiCall(t) \/ OpStep(t) \/ ApiReturn(t)
    \/ EngineDown
    \/ EngineUp
    \/ jackShutdownCallback

ApiSpec == Init /\ [][ApiNext]_vars

\* ---- HttpServer::handleClient / processRequest, one worker per connection ----
Respond(w, k, b, m, c) ==
    /\ resp' = [resp EXCEPT ![w] = HttpResponse(k, b, m, c)]
    /\ ctx' = [ctx EXCEPT ![w] = "respond"]

\* variant: the probe comes before the input checks
BodyCheck_AfterProbe(r) == "valid"

\* handleConnect / handleDisconnect before the probe: the input checks
BodyCheck(r) ==
    IF ~r.sep THEN "nobody"
    ELSE IF ~r.source \/ ~r.destination THEN "nofield"
    ELSE "valid"

\* serverLoop accepts a connection; the worker reads a request of R and routes
\* it, up to its first JackManager call
AcceptFrom(w, R) ==
    /\ Quiet
    /\ ctx[w] = "idle"
    /\ serverThread = "loop"
    /\ running
    /\ \E r \in R :
         /\ req' = [req EXCEPT ![w] = r]
         /\ CASE Kind(r) = "options" ->
                    Respond(w, "empty", TRUE, "none", None) /\ UNCHANGED thrVars
              [] Kind(r) = "notfound" ->
                    Respond(w, "notfound", FALSE, "none", None) /\ UNCHANGED thrVars
              [] Kind(r) \in {"connect", "disconnect"} /\ BodyCheck(r) # "valid" ->
                    Respond(w, BodyCheck(r), FALSE, "none", None) /\ UNCHANGED thrVars
              [] OTHER ->
                    /\ Call(w, "isRunning", 0)
                    /\ ctx' = [ctx EXCEPT ![w] = "probe"]
                    /\ UNCHANGED resp
    /\ UNCHANGED <<mgrVars, statusCheckCounter, g_serviceRunning, srvVars, engVars>>

Accept(w) == AcceptFrom(w, Requests)

SecondOp(k) ==
    CASE k = "status" -> "getJackInfo"
      [] k = "ports" -> "getPorts"
      [] k = "connections" -> "getConnections"
      [] k = "connect" -> "connectPorts"
      [] k = "disconnect" -> "disconnectPorts"
      [] k = "clear" -> "clearAllConnections"

\* variant: the handler goes on whatever the probe returned
AfterProbe_IgnoresProbe(w) ==
    /\ ctx[w] = "probe" /\ pc[w] = "ret"
    /\ LET k == Kind(req[w]) IN
         IF k = "health"
         THEN /\ Respond(w, k, TRUE, "none", None)
              /\ Finish(w)
         ELSE /\ Call(w, SecondOp(k), req[w].pair)
              /\ ctx' = [ctx EXCEPT ![w] = IF k = "status" THEN "info1" ELSE "op2"]
              /\ UNCHANGED resp
    /\ UNCHANGED <<mgrVars, req, statusCheckCounter, g_serviceRunning, srvVars, engVars>>

\* the handler has the probe's result
AfterProbe(w) ==
    /\ ctx[w] = "probe" /\ pc[w] = "ret"
    /\ LET k == Kind(req[w])
            jackOk == ret[w].ok IN
         IF k = "health" \/ ~jackOk
         THEN /\ Respond(w, IF k \in {"health", "status"} THEN k ELSE "notrunning",
                         k = "health" \/ (k = "status" /\ jackOk), "none", None)
              /\ Finish(w)
         ELSE /\ Call(w, SecondOp(k), req[w].pair)
              /\ ctx' = [ctx EXCEPT ![w] = IF k = "status" THEN "info1" ELSE "op2"]
              /\ UNCHANGED resp
    /\ UNCHANGED <<mgrVars, req, statusCheckCounter, g_serviceRunning, srvVars, engVars>>

\* getJackStatus calls getJackInfo twice (line 482), in an order the language
\* leaves to the compiler
AfterInfo1(w) ==
    /\ ctx[w] = "info1" /\ pc[w] = "ret"
    /\ resp' = [resp EXCEPT ![w].meta = IF ret[w].ok THEN "info" ELSE "{}"]
    /\ Call(w, "getJackInfo", 0)
    /\ ctx' = [ctx EXCEPT ![w] = "op2"]
    /\ UNCHANGED <<mgrVars, req, statusCheckCounter, g_serviceRunning, srvVars, engVars>>

\* the handler builds its body from the result; processRequest catches an
\* exception of the handler and answers with the internal error body
AfterOp(w) ==
    /\ ctx[w] = "op2" /\ pc[w] = "ret"
    /\ LET k == Kind(req[w]) IN
         IF ret[w].exc
         THEN Respond(w, "error", FALSE, "none", None)
         ELSE CASE k = "status" ->
                    LET first == resp[w].meta
                        second == IF ret[w].ok THEN "info" ELSE "{}" IN
                    \E m \in {InfoSlice(first, second), InfoSlice(second, first)} :
                        Respond(w, k, TRUE, m, None)
                [] k \in {"connect", "disconnect"} ->
                    Respond(w, k, ret[w].ok, "none", None)
                [] OTHER ->
                    Respond(w, k, TRUE, "none", Cardinality(ret[w].items))
    /\ Finish(w)
    /\ UNCHANGED <<mgrVars, req, statusCheckCounter, g_serviceRunning, srvVars, engVars>>

\* send the response and close the stream
Send(w) ==
    /\ ctx[w] = "respond"
    /\ ctx' = [ctx EXCEPT ![w] = "idle"]
    /\ req' = [req EXCEPT ![w] = NoReq]
    /\ resp' = [resp EXCEPT ![w] = NoResp]
    /\ UNCHANGED <<mgrVars, thrVars, statusCheckCounter, g_serviceRunning, srvVars, engVars>>

WorkerResume(w) ==
    \/ AfterProbe(w)
    \/ AfterInfo1(w)
    \/ AfterOp(w)
    \/ Send(w)

\* ---- main ----
MainCall(o, c) ==
    /\ Call(Main, o, 0)
    /\ ctx' = [ctx EXCEPT ![Main] = c]

\* line 716: the first initialize()
MainStart ==
    /\ Quiet
    /\ ctx[Main] = "start"
    /\ MainCall("initialize", "init0")
    /\ UNCHANGED <<mgrVars, req, resp, statusCheckCounter, g_serviceRunning, srvVars, engVars>>

\* how HttpServer::start ends: WSAStartup fails, socket() fails, bind or
\* listen fails, or the socket listens
StartOutcomes == {"nowsa", "nosocket", "nobind", "nolisten", "listening"}

\* stop() on the socket and the socket library: closesocket if serverSocket
\* is not INVALID_SOCKET, which is then stored; c is 1 when stop() does not
\* wait in join() and goes on to WSACleanup in the same step
StopSocket(c) ==
    /\ nClosesocket' = nClosesocket + (IF serverSocket # "invalid" THEN 1 ELSE 0)
    /\ serverSocket' = "invalid"
    /\ nWSACleanup' = nWSACleanup + c
    /\ UNCHANGED <<nSocket, nWSAStartup>>

\* start() on the socket and the socket library. A failure path that has a
\* socket closes it and leaves serverSocket as it is; main then returns 1 and
\* the destructor of g_server runs stop() at exit, which is part of the step.
StartSocket(o) ==
    CASE o = "listening" ->
            /\ nWSAStartup' = nWSAStartup + 1
            /\ nSocket' = nSocket + 1
            /\ serverSocket' = "open"
            /\ UNCHANGED <<nClosesocket, nWSACleanup>>
      [] o = "nowsa" ->
            \* start: return false; stop: WSACleanup
            /\ nWSACleanup' = nWSACleanup + 1
            /\ UNCHANGED <<serverSocket, nSocket, nClosesocket, nWSAStartup>>
      [] o = "nosocket" ->
            \* start: WSACleanup, return false; stop: WSACleanup
            /\ nWSAStartup' = nWSAStartup + 1
            /\ nWSACleanup' = nWSACleanup + 2
            /\ UNCHANGED <<serverSocket, nSocket, nClosesocket>>
      [] o \in {"nobind", "nolisten"} ->
            \* start: closesocket, WSACleanup, return false;
            \* stop: closesocket, serverSocket = INVALID_SOCKET, WSACleanup
            /\ nWSAStartup' = nWSAStartup + 1
            /\ nSocket' = nSocket + 1
            /\ nClosesocket' = nClosesocket + 2
            /\ nWSACleanup' = nWSACleanup + 2
            /\ serverSocket' = "invalid"

\* lines 716-726: a failed initialize only warns; g_server->start() failing
\* makes main return 1; succeeding, it sets running and starts serverLoop
MainServerStart ==
    /\ ctx[Main] = "init0" /\ pc[Main] = "ret"
    /\ \E o \in StartOutcomes :
         LET ok == o = "listening" IN
         /\ ctx' = [ctx EXCEPT ![Main] = IF ok THEN "loop" ELSE "aborted"]
         /\ running' = ok
         /\ serverThread' = IF ok THEN "loop" ELSE "none"
         /\ StartSocket(o)
    /\ Finish(Main)
    /\ UNCHANGED <<mgrVars, req, resp, statusCheckCounter, g_serviceRunning,
                   handlerPc, engVars, variantVars>>

\* the iterations of the service loop before the status check: each sleeps,
\* counts and tests g_serviceRunning again. They are taken as one step, up to
\* the iteration whose increment reaches CheckEvery.
MainSleep ==
    /\ Quiet
    /\ ctx[Main] = "loop"
    /\ g_serviceRunning
    /\ statusCheckCounter + 1 < CheckEvery
    /\ statusCheckCounter' = CheckEvery - 1
    /\ UNCHANGED <<mgrVars, thrVars, ctx, req, resp, g_serviceRunning, srvVars, engVars>>

\* the iteration whose counter reaches the period: the watchdog tick
MainTick ==
    /\ Quiet
    /\ ctx[Main] = "loop"
    /\ g_serviceRunning
    /\ statusCheckCounter + 1 >= CheckEvery
    /\ statusCheckCounter' = 0
    /\ MainCall("isRunning", "tick")
    /\ UNCHANGED <<mgrVars, req, resp, g_serviceRunning, srvVars, engVars>>

MainAfterTick ==
    /\ ctx[Main] = "tick" /\ pc[Main] = "ret"
    /\ IF ret[Main].ok
         THEN /\ ctx' = [ctx EXCEPT ![Main] = "loop"]
              /\ Finish(Main)
         ELSE MainCall("shutdown", "reshut")
    /\ UNCHANGED <<mgrVars, req, resp, statusCheckCounter, g_serviceRunning, srvVars, engVars>>

MainReinitialize ==
    /\ ctx[Main] = "reshut" /\ pc[Main] = "ret"
    /\ MainCall("initialize", "reinit")
    /\ UNCHANGED <<mgrVars, req, resp, statusCheckCounter, g_serviceRunning, srvVars, engVars>>

MainAfterReinitialize ==
    /\ ctx[Main] = "reinit" /\ pc[Main] = "ret"
    /\ ctx' = [ctx EXCEPT ![Main] = "loop"]
    /\ Finish(Main)
    /\ UNCHANGED <<mgrVars, req, resp, statusCheckCounter, g_serviceRunning, srvVars, engVars>>

\* the loop observes g_serviceRunning false; cleanup calls g_server->stop(),
\* which clears running, closes the listening socket and, if serverThread is
\* joinable, waits in join()
MainStop ==
    /\ Quiet
    /\ ctx[Main] = "loop"
    /\ ~g_serviceRunning
    /\ running' = FALSE
    /\ ctx' = [ctx EXCEPT ![Main] = IF serverThread = "loop" THEN "join" ELSE "stopped"]
    /\ StopSocket(IF serverThread = "loop" THEN 0 ELSE 1)
    /\ UNCHANGED <<mgrVars, thrVars, req, resp, statusCheckCounter, g_serviceRunning,
                   serverThread, handlerPc, engVars, variantVars>>

\* stop() has returned: g_server.reset(), then jackManager.shutdown()
MainCleanup ==
    /\ ctx[Main] = "stopped"
    /\ StopSocket(1)
    /\ MainCall("shutdown", "final")
    /\ UNCHANGED <<mgrVars, req, resp, statusCheckCounter, g_serviceRunning,
                   running, serverThread, handlerPc, engVars, variantVars>>

MainExit ==
    /\ ctx[Main] = "final" /\ pc[Main] = "ret"
    /\ ctx' = [ctx EXCEPT ![Main] = "exited"]
    /\ Finish(Main)
    /\ UNCHANGED <<mgrVars, req, resp, statusCheckCounter, g_serviceRunning, srvVars, engVars>>

MainResume ==
    \/ MainServerStart
    \/ MainAfterTick
    \/ MainReinitialize
    \/ MainAfterReinitialize
    \/ MainCleanup
    \/ MainExit

MainStep ==
    \/ LifecycleStep(Main)
    \/ ProbeStep(Main)
    \/ MainStart
    \/ MainSleep
    \/ MainTick
    \/ MainStop

\* the unique_ptr g_server holds the HttpServer from line 721 to line 765
g_server == ctx[Main] \in {"loop", "tick", "reshut", "reinit", "join", "stopped"}

\* the system runs consoleHandler on a thread of its own: it clears
\* g_serviceRunning and, if g_server is set, calls stop(), which clears
\* running, closes the listening socket and waits in join()
consoleHandler ==
    /\ g_serviceRunning
    /\ Quiet
    /\ g_serviceRunning' = FALSE
    /\ IF g_server
         THEN /\ running' = FALSE
              /\ handlerPc' = IF serverThread = "loop" THEN "join" ELSE "done"
              /\ StopSocket(IF serverThread = "loop" THEN 0 ELSE 1)
         ELSE /\ handlerPc' = "done"
              /\ UNCHANGED <<running, sockVars>>
    /\ UNCHANGED <<mgrVars, thrVars, ctx, req, resp, statusCheckCounter,
                   serverThread, engVars, variantVars>>

\* both main and the thread of consoleHandler are inside serverThread.join()
JoinedTwice == ctx[Main] = "join" /\ handlerPc = "join"

\* accept fails on the closed socket, serverLoop finds running false and
\* returns; join() returns in the threads that wait in it
serverLoopExit ==
    /\ Quiet
    /\ serverThread = "loop"
    /\ ~running
    /\ serverThread' = "joined"
    /\ handlerPc' = IF handlerPc = "join" THEN "done" ELSE handlerPc
    /\ ctx' = [ctx EXCEPT ![Main] = IF @ = "join" THEN "stopped" ELSE @]
    /\ nWSACleanup' = nWSACleanup + (IF handlerPc = "join" THEN 1 ELSE 0)
                                  + (IF ctx[Main] = "join" THEN 1 ELSE 0)
    /\ UNCHANGED <<mgrVars, thrVars, req, resp, statusCheckCounter, g_serviceRunning,
                   running, serverSocket, nSocket, nClosesocket, nWSAStartup, engVars, variantVars>>

\* two unsynchronised calls of join() on one std::thread: the call that
\* comes second can throw std::system_error, which nothing catches
JoinThrows ==
    /\ Quiet
    /\ serverThread = "loop"
    /\ ~running
    /\ JoinedTwice
    /\ serverThread' = "joined"
    /\ handlerPc' = "done"
    /\ ctx' = [ctx EXCEPT ![Main] = "terminated"]
    /\ UNCHANGED <<mgrVars, thrVars, req, resp, statusCheckCounter, g_serviceRunning,
                   running, sockVars, engVars, variantVars>>

\* workers call the probe and the routing operations; main calls the probe
\* and the lifecycle operations
Next ==
    \/ MainStep
    \/ MainResume
    \/ \E w \in Workers :
         Accept(w) \/ ProbeStep(w) \/ RoutingStep(w) \/ WorkerResume(w)
    \/ consoleHandler
    \/ serverLoopExit
    \/ JoinThrows
    \/ EngineDown
    \/ EngineUp
    \/ jackShutdownCallback

Spec == Init /\ [][Next]_vars

\* ---- the program with one request thread, sent any request ----
AcceptAny(w) == AcceptFrom(w, AllRequests)

RouteNext ==
    \/ MainStep
    \/ MainResume
    \/ AcceptAny(Server)
    \/ ProbeStep(Server)
    \/ RoutingStep(Server)
    \/ WorkerResume(Server)
    \/ consoleHandler
    \/ serverLoopExit
    \/ JoinThrows
    \/ EngineDown
    \/ EngineUp
    \/ jackShutdownCallback

RouteSpec == Init /\ [][RouteNext]_vars

\* ---- the program serving connect and disconnect requests on two request
\* threads ----
AcceptPair(w) == AcceptFrom(w, PairRequests)

ConnectNext ==
    \/ MainStep
    \/ MainResume
    \/ \E w \in Clients :
         \/ AcceptPair(w) \/ ProbeStep(w)
         \/ ConnectEnter(w) \/ ConnectDone(w)
         \/ DisconnectEnter(w) \/ DisconnectDone(w)
         \/ AfterProbe(w) \/ AfterOp(w) \/ Send(w)
    \/ consoleHandler
    \/ serverLoopExit
    \/ JoinThrows
    \/ EngineDown
    \/ EngineUp
    \/ jackShutdownCallback

ConnectSpec == Init /\ [][ConnectNext]_vars

\* ---- scheduling ----
\* A thread whose next step is possible again and again eventually takes it:
\* a runnable thread is scheduled, and a thread that waits for g_jackMutex
\* gets it if it is released again and again. Requests, signals and the
\* engine's failures are the environment's and are not forced.
ThreadStep(t) ==
    IF t = Main
    THEN MainStep \/ MainResume
    ELSE ProbeStep(t) \/ RoutingStep(t) \/ WorkerResume(t)

Fairness ==
    /\ \A t \in {Main} \cup Workers : SF_vars(ThreadStep(t))
    /\ SF_vars(serverLoopExit)
    /\ SF_vars(jackShutdownCallback)

FairSpec == Spec /\ Fairness

\* ---- properties ----
Connected == g_jackClient # 0 /\ g_jackRunning
StepOf(t) == pc'[t] # pc[t]
HolderStep == mutexOwner # None /\ StepOf(mutexOwner)
Returned(t, o) == pc[t] = "ret" /\ op[t] = o

\* C1: at most one thread at a time is inside an engine call.
C1_EngineCallsExclusive ==
    Cardinality({t \in Threads : InEngine(t)}) <= 1

\* C1 witness: one caller is inside jack_connect while another caller's
\* connect or disconnect of the same pair waits for the lock.
C1_Witness ==
    \E t, u \in Threads :
        /\ t # u
        /\ pc[t] = "connect"
        /\ pc[u] = "lock"
        /\ op[u] \in {"connectPorts", "disconnectPorts"}
        /\ arg[u] = arg[t]

\* C2: every JackManager operation holds g_jackMutex while it runs, can always
\* go on to its return, and has released the mutex when it has returned.
C2_OperationsReturnUnlocked ==
    \A t \in Threads :
        /\ pc[t] \in EnginePcs \cup LocalPcs => mutexOwner = t
        /\ Quiet /\ mutexOwner = t => ENABLED OpStep(t)
        /\ pc[t] = "ret" => mutexOwner # t

\* C3: while the service runs, every accepted request is answered and the
\* watchdog keeps performing its ticks.
C3_StaysServiceable ==
    \/ <>(~g_serviceRunning \/ ctx[Main] = "aborted")
    \/ /\ \A w \in Workers : (ctx[w] # "idle") ~> (ctx[w] = "idle")
       /\ []<>(ctx[Main] = "tick")

\* C4: every change of g_jackClient or g_jackRunning, the one made by
\* jackShutdownCallback included, is a step of the thread that holds
\* g_jackMutex.
C4_AllWritesUnderLock ==
    [][(g_jackClient' # g_jackClient \/ g_jackRunning' # g_jackRunning)
        => HolderStep]_vars

\* C5: at most one handle is open, and one is open exactly when g_jackClient
\* is non-null, in which case it is that handle.
C5_AtMostOneLiveHandle ==
    /\ Cardinality(live) <= 1
    /\ g_jackClient # 0 <=> live # {}
    /\ g_jackClient # 0 => g_jackClient \in live

\* C5 witness: a shutdown is closing the handle while an initialize of
\* another thread waits for the lock.
C5_Witness ==
    \E t, u \in Threads :
        /\ pc[t] = "close" /\ op[t] = "shutdown"
        /\ pc[u] = "lock" /\ op[u] = "initialize"
        /\ live = {g_jackClient}

\* C6: jack_client_close is called only on a non-null handle that is open,
\* by the holder of g_jackMutex, while no other thread is inside an engine
\* call; when main has returned from its cleanup no handle is left open.
C6_CloseOncePerHandle ==
    /\ \A t \in Threads :
          pc[t] = "close" =>
            /\ hnd[t] # 0
            /\ hnd[t] \in live
            /\ mutexOwner = t
            /\ \A u \in Threads \ {t} : ~InEngine(u)
    /\ ctx[Main] = "exited" => live = {} /\ g_jackClient = 0

\* C6 witness: the process-exit shutdown is inside jack_client_close while a
\* request worker is in flight, waiting for the lock.
C6_Witness ==
    /\ ctx[Main] = "final"
    /\ pc[Main] = "close"
    /\ \E w \in Workers : pc[w] = "lock"

\* C7: initialize() entered in the Connected state returns true at once,
\* without an engine call, and changes neither g_jackClient nor
\* g_jackRunning nor the set of open handles.
C7_InitializeIdempotent ==
    [][\A t \in Threads :
        (AtBody(t, "initialize") /\ Connected /\ StepOf(t)) =>
            /\ pc'[t] = "ret"
            /\ ret'[t].ok
            /\ g_jackClient' = g_jackClient
            /\ g_jackRunning' = g_jackRunning
            /\ live' = live]_vars

\* C7 witness: an initialize() that found the manager Connected has returned.
C7_Witness ==
    \E t \in Threads :
        /\ Returned(t, "initialize")
        /\ entry[t].client # 0 /\ entry[t].running
        /\ Connected
        /\ ret[t].ok

\* C8: when initialize() returns true the manager is Connected, and when it
\* returns false there is no handle and the running flag is false.
C8_InitializePostcondition ==
    \A t \in Threads :
        Returned(t, "initialize") =>
            IF ret[t].ok
            THEN g_jackClient # 0 /\ g_jackRunning
            ELSE g_jackClient = 0 /\ ~g_jackRunning

\* C9: whenever the manager is not Connected while the engine is reachable,
\* it becomes Connected, unless the engine goes away again or the service
\* is stopped.
C9_WatchdogReconnects ==
    (~Connected /\ engineUp /\ ctx[Main] \in {"loop", "tick", "reshut", "reinit"})
        ~> (Connected \/ ~engineUp \/ ~g_serviceRunning)

\* C10: isRunning() never opens and never closes the handle; without a handle
\* it returns false at once, without an engine call; a failed probe clears
\* the running flag and leaves g_jackClient as it is.
C10_ProbeKeepsHandle ==
    [][\A t \in Threads :
        (op[t] = "isRunning" /\ StepOf(t)) =>
            /\ g_jackClient' = g_jackClient
            /\ live' = live
            /\ pc'[t] \notin {"open", "close"}
            /\ (pc[t] = "body" /\ g_jackClient = 0) => (pc'[t] = "ret" /\ ~ret'[t].ok)
            /\ pc[t] = "sr_zero" => ~g_jackRunning'
            /\ (pc'[t] = "ret" /\ ret'[t].ok) => g_jackRunning']_vars

\* C10 witness: a probe on an existing handle has failed and returned false;
\* the handle is still there and the flag is cleared.
C10_Witness ==
    \E t \in Threads :
        /\ Returned(t, "isRunning")
        /\ ~ret[t].ok
        /\ entry[t].client # 0
        /\ g_jackClient = entry[t].client
        /\ g_jackClient \in live
        /\ ~g_jackRunning

\* C11: shutdown() leaves the manager with no handle and the running flag
\* false; a shutdown() entered with no handle (as after a shutdown) returns
\* without an engine call and changes nothing.
C11_ShutdownIdempotent ==
    [][\A t \in Threads :
        (op[t] = "shutdown" /\ StepOf(t)) =>
            /\ pc'[t] = "ret" => (g_jackClient' = 0 /\ ~g_jackRunning')
            /\ (pc[t] = "body" /\ g_jackClient = 0) =>
                  /\ pc'[t] = "ret"
                  /\ g_jackClient' = g_jackClient
                  /\ g_jackRunning' = g_jackRunning
                  /\ engVars' = engVars]_vars

\* C11 witness: a shutdown() has closed the handle and returned, and the
\* shutdown() of another thread, called meanwhile, is next to get the lock.
C11_Witness ==
    \E t, u \in Threads :
        /\ Returned(t, "shutdown")
        /\ entry[t].client # 0
        /\ g_jackClient = 0 /\ ~g_jackRunning /\ live = {}
        /\ op[u] = "shutdown" /\ pc[u] = "lock"

Range(q) == {q[i] : i \in DOMAIN q}
\* worker w hands the result of its handler's operation to the response
Answers(w, k) ==
    /\ ctx[w] = "op2" /\ pc[w] = "ret"
    /\ Kind(req[w]) = k
    /\ ctx'[w] = "respond"

\* C12: a POST /clear whose probe found the engine running is answered with
\* success:true and a count of the edges disconnected.
C12_ClearAllReportsCount ==
    \A w \in Handlers :
        (ctx[w] = "respond" /\ Kind(req[w]) = "clear"
            /\ resp[w].kind # "notrunning") =>
                /\ resp[w].kind = "clear"
                /\ resp[w].ok
                /\ resp[w].count >= 0

\* C13: a POST /connect for which jack_connect returned EEXIST is answered
\* with success:true and an alreadyConnected indicator in the body.
C13_AlreadyConnectedReported ==
    [][\A w \in Handlers :
        (Answers(w, "connect") /\ ret[w].code = "EEXIST") =>
            /\ resp'[w].ok
            /\ "alreadyConnected" \in Range(resp'[w].keys)]_vars

\* C14: each of two concurrent POST /connect requests for a valid pair, on a
\* handle the engine serves, gets true from connectPorts, whether it creates
\* the edge or finds it, and is answered with success:true; the engine then
\* holds the edge, once.
C14_ConcurrentConnectsSucceed ==
    [][\A w \in Handlers :
        /\ (pc[w] = "connect" /\ pc'[w] = "ret"
                /\ hnd[w] \in alive /\ arg[w] # 0) =>
              /\ ret'[w].ok
              /\ ret'[w].code = (IF arg[w] \in conns THEN "EEXIST" ELSE "0")
              /\ conns' = conns \cup {arg[w]}
        /\ Answers(w, "connect") =>
              /\ resp'[w].kind = "connect"
              /\ resp'[w].ok = (ret[w].code \in {"0", "EEXIST"})]_vars

\* C14 witness: both requests have passed the probe; one is inside
\* jack_connect creating the edge, the other waits for the lock with the
\* same pair.
C14_Witness ==
    \E w, u \in Clients :
        /\ w # u
        /\ Kind(req[w]) = "connect" /\ Kind(req[u]) = "connect"
        /\ req[w].pair = req[u].pair /\ req[w].pair # 0
        /\ ctx[w] = "op2" /\ pc[w] = "connect"
        /\ hnd[w] \in alive /\ arg[w] \notin conns
        /\ ctx[u] = "op2" /\ pc[u] = "lock"

C17_ListRequestsWhenDisconnected ==
    [][\A w \in Handlers :
        (/\ ctx[w] = "probe" /\ pc[w] = "ret" /\ ctx'[w] # "probe"
         /\ req[w].method = "GET"
         /\ req[w].path \in {"/ports", "/connections"}
         /\ ~(entry[w].client # 0 /\ entry[w].running)) =>
            /\ ctx'[w] = "respond"
            /\ pc'[w] = "idle"
            /\ resp'[w].kind = "notrunning"
            /\ ~resp'[w].ok
            /\ resp'[w].keys = <<"success", "error">>
            /\ resp'[w].count = None
            /\ resp'[w].status = "HTTP/1.1 200 OK"]_vars

\* C17 witness: the probe of a GET /connections, made on a handle whose
\* running flag was already false, has returned false to the handler.
C17_Witness ==
    \E w \in Handlers :
        /\ ctx[w] = "probe" /\ pc[w] = "ret"
        /\ req[w].method = "GET" /\ req[w].path = "/connections"
        /\ entry[w].client # 0 /\ ~entry[w].running
        /\ ~ret[w].ok

\* the seven documented routes
ExactRoute(r) ==
    \/ r.method = "GET" /\ r.path \in {"/health", "/status", "/ports", "/connections"}
    \/ r.method = "POST" /\ r.path \in {"/connect", "/disconnect", "/clear"}

\* C18: a handler's operation is invoked only for one of the seven documented
\* (method, path) routes; OPTIONS gets the empty body; every other
\* (method, path) gets the not-found body.
C18_RoutesByMethodAndPath ==
    \A w \in Handlers :
        /\ ctx[w] \in {"probe", "info1", "op2"} => ExactRoute(req[w])
        /\ (ctx[w] = "respond" /\ req[w].method = "OPTIONS") =>
              resp[w].kind = "empty"
        /\ (ctx[w] = "respond" /\ req[w].method # "OPTIONS"
                /\ ~ExactRoute(req[w])) =>
              resp[w].kind = "notfound"

\* C19: every response has the status line HTTP/1.1 200 OK, the three CORS
\* headers, Content-Type application/json and a Content-Length equal to the
\* length of its body, the response to a handler's exception included.
C19_ResponseEnvelope ==
    \A w \in Handlers :
        ctx[w] = "respond" =>
            /\ resp[w].status = "HTTP/1.1 200 OK"
            /\ resp[w].cors = CorsHeaders
            /\ Cardinality(resp[w].cors) = 3
            /\ resp[w].ctype = "application/json"
            /\ resp[w].clen = Len(resp[w].keys)
            /\ resp[w].keys = BodyKeys(resp[w].kind, resp[w].meta)

\* C19 witness: the response to an exception thrown inside a handler.
C19_Witness ==
    \E w \in Handlers :
        /\ ctx[w] = "respond"
        /\ resp[w].kind = "error"
        /\ resp[w].clen = 2

\* C20: a POST /connect or POST /disconnect without a blank-line separator is
\* answered success:false with the missing-body error, and one whose body
\* lacks a non-empty "source" or "destination" with the missing-field error;
\* no JackManager operation is called and neither the connection state nor
\* the engine changes.
C20_InputCheckedBeforeProbe ==
    [][\A w \in Handlers :
        (/\ ctx[w] = "idle" /\ ctx'[w] # "idle"
         /\ req'[w].method = "POST" /\ req'[w].path \in BodyPaths
         /\ ~(req'[w].sep /\ req'[w].source /\ req'[w].destination)) =>
            /\ ctx'[w] = "respond"
            /\ resp'[w].kind = (IF req'[w].sep THEN "nofield" ELSE "nobody")
            /\ ~resp'[w].ok
            /\ pc'[w] = "idle" /\ op'[w] = "none"
            /\ mgrVars' = mgrVars
            /\ engVars' = engVars]_vars

\* C20 witness: a POST /disconnect with a source and no destination is being
\* answered with the missing-field error while the manager is Connected.
C20_Witness ==
    \E w \in Handlers :
        /\ ctx[w] = "respond"
        /\ req[w].path = "/disconnect"
        /\ req[w].sep /\ req[w].source /\ ~req[w].destination
        /\ resp[w].kind = "nofield"
        /\ pc[w] = "idle"
        /\ Connected

\* ---- the request text, as handleClient reads it and the handlers parse it ----
\* A request is a sequence of tokens: the method, the path, header lines
\* ("hdr"), the blank line ("sep"), and a body made of the opening of a
\* member up to the quote that starts its value ("source", "destination"),
\* value characters ("chr"), closing quotes ("quote") and filler without
\* quotes ("pad"). ReadLimit is sizeof(buffer) - 1 in tokens.
ReadLimit == 9
MaxPad == 4

Rep(x, n) == [i \in 1..n |-> x]
WireText(p, h, b) ==
    <<"POST", p>> \o Rep("hdr", h) \o <<"sep">>
        \o <<"source", "chr", "quote", "destination", "chr", "quote">>
        \o Rep("pad", b)
WireTexts ==
    {WireText(p, h, b) : p \in BodyPaths, h \in 0..ReadLimit, b \in 0..MaxPad}

\* the one recv of handleClient: at most ReadLimit tokens, the rest is not read
Recv(x) == SubSeq(x, 1, IF Len(x) < ReadLimit THEN Len(x) ELSE ReadLimit)

\* request.find("\r\n\r\n"): the position of the blank line, 0 for npos
FindSep(s) ==
    LET I == {i \in 1..Len(s) : s[i] = "sep"} IN
    IF I = {} THEN 0 ELSE CHOOSE i \in I : \A j \in I : i <= j
BodyOf(s) == SubSeq(s, FindSep(s) + 1, Len(s))

\* the regex "key"\s*:\s*"([^"]+)" finds a match: the member's opening, one
\* or more characters other than a quote, and the closing quote
extractJsonValue(json, key) ==
    \E i, j \in 1..Len(json) :
        /\ i + 1 < j
        /\ json[i] = key
        /\ json[j] = "quote"
        /\ \A k \in (i + 1)..(j - 1) : json[k] \in {"chr", "pad"}

\* the request a worker works on after reading the text x
ParseRequest(x) ==
    LET s == Recv(x)
        found == FindSep(s) # 0
        src == found /\ extractJsonValue(BodyOf(s), "source")
        dst == found /\ extractJsonValue(BodyOf(s), "destination")
    IN  [method |-> IF Len(s) >= 1 THEN s[1] ELSE "",
         path |-> IF Len(s) >= 2 THEN s[2] ELSE "",
         sep |-> found, source |-> src, destination |-> dst,
         pair |-> IF src /\ dst THEN 1 ELSE 0,
         text |-> x]
ReadRequests == {ParseRequest(x) : x \in WireTexts}

\* ---- the program with one request thread, reading request texts ----
AcceptRead(w) == AcceptFrom(w, ReadRequests)

ReadNext ==
    \/ MainStep
    \/ MainResume
    \/ AcceptRead(Server)
    \/ ProbeStep(Server)
    \/ ConnectEnter(Server) \/ ConnectDone(Server)
    \/ DisconnectEnter(Server) \/ DisconnectDone(Server)
    \/ AfterProbe(Server) \/ AfterOp(Server) \/ Send(Server)
    \/ consoleHandler
    \/ serverLoopExit
    \/ JoinThrows
    \/ EngineDown
    \/ EngineUp
    \/ jackShutdownCallback

ReadSpec == Init /\ [][ReadNext]_vars

\* the body of text x is longer than one read, and the read ends inside it
TruncatedInBody(x) ==
    /\ Len(BodyOf(x)) > ReadLimit
    /\ FindSep(Recv(x)) # 0

\* C21: a POST /connect or /disconnect whose body exceeds the read limit and
\* is cut inside the body is answered with the missing-field error
\* (success:false), wherever the cut falls.
C21_TruncatedBodyIsMissingField ==
    \A w \in Handlers :
        (/\ ctx[w] \in {"probe", "op2", "respond"}
         /\ req[w].path \in BodyPaths
         /\ TruncatedInBody(req[w].text)) =>
            /\ ctx[w] = "respond"
            /\ resp[w].kind = "nofield"
            /\ ~resp[w].ok


\* C22: every response body that is not empty has a success member and a
\* timestamp member, whatever the route and the outcome.
C22_BodyHasSuccessAndTimestamp ==
    \A w \in Handlers :
        (ctx[w] = "respond" /\ resp[w].keys # <<>>) =>
            /\ "success" \in Range(resp[w].keys)
            /\ "timestamp" \in Range(resp[w].keys)


\* worker w is between the read of its request and the close of its stream
InFlight(w) == ctx[w] \in {"probe", "info1", "op2", "respond"}

\* C23: while a worker is between its read and the close of its stream, the
\* HttpServer object is not destroyed (g_server.reset() comes before the
\* final shutdown()) and main has not returned (which destroys the
\* JackManager).
C23_WorkersFinishBeforeTeardown ==
    \A w \in Workers :
        InFlight(w) => ctx[Main] \notin {"final", "exited"}


\* main is in its service loop: sleeping, or inside a watchdog tick
InWatchdog == ctx[Main] \in {"loop", "tick", "reshut", "reinit"}

\* C24: once g_serviceRunning is false and stop() has cleared running, the
\* accept loop returns and the watchdog loop is left; main leaves it without
\* g_jackMutex; no worker is started once serverLoop has returned.
C24_LoopsObserveShutdown ==
    /\ (~running /\ serverThread = "loop") ~> (serverThread = "joined")
    /\ (~g_serviceRunning /\ InWatchdog) ~> ~InWatchdog
    /\ [](ctx[Main] \in {"join", "stopped", "exited"} => mutexOwner # Main)
    /\ [][serverThread # "loop" =>
            \A w \in Workers : ctx[w] = "idle" => ctx'[w] = "idle"]_vars


\* C25: a thread that is blocked in recv or send, and main while it sleeps or
\* waits in join(), does not hold g_jackMutex; the owner of the mutex is
\* inside a JackManager operation.
C25_NoLockAcrossIO ==
    \A t \in Threads :
        /\ (t \in Handlers /\ ctx[t] \in {"idle", "respond"}) => mutexOwner # t
        /\ (t = Main /\ ctx[t] \in {"loop", "join"}) => mutexOwner # t
        /\ mutexOwner = t => (op[t] # "none" /\ pc[t] \notin {"idle", "lock", "ret"})

\* a worker is sending the response built from an operation it ran under the
\* lock, and main is in its sleep
C25_Witness ==
    /\ ctx[Server] = "respond"
    /\ resp[Server].kind \in {"status", "ports", "connections", "connect",
                              "disconnect", "clear"}
    /\ ctx[Main] = "loop"
    /\ statusCheckCounter = CheckEvery - 1


\* C26: the process ends in one of two ways only: main returns 1 because
\* start() failed, with no accept thread, no worker and no watchdog
\* iteration; or main returns 0 after the shutdown signal.
C26_OnlyListenerFailureAborts ==
    /\ ctx[Main] = "aborted" =>
            /\ serverThread = "none" /\ ~running
            /\ statusCheckCounter = 0
            /\ \A w \in Workers : ctx[w] = "idle"
    /\ ctx[Main] = "exited" => ~g_serviceRunning
    /\ ctx[Main] # "terminated"


\* C27: a watchdog tick starts with isRunning(); main goes on to shutdown()
\* and then initialize() exactly when the probe returned false, and back to
\* the loop whatever initialize() returned; and while the engine is missing
\* and the service is not stopped, a tick completes again and again.
C27_WatchdogTickRetries ==
    /\ [][/\ (ctx[Main] = "loop" /\ ctx'[Main] = "tick") => op'[Main] = "isRunning"
          /\ (ctx[Main] = "tick" /\ ctx'[Main] # "tick") =>
                IF ret[Main].ok
                THEN ctx'[Main] = "loop" /\ op'[Main] = "none"
                ELSE ctx'[Main] = "reshut" /\ op'[Main] = "shutdown"
          /\ (ctx[Main] = "reshut" /\ ctx'[Main] # "reshut") =>
                (ctx'[Main] = "reinit" /\ op'[Main] = "initialize")
          /\ (ctx[Main] = "reinit" /\ ctx'[Main] # "reinit") => ctx'[Main] = "loop"
         ]_vars
    /\ (InWatchdog /\ ~engineUp /\ ~Connected)
          ~> \/ ctx[Main] = "reinit" /\ pc[Main] = "ret"
             \/ ctx[Main] = "tick" /\ pc[Main] = "ret" /\ ret[Main].ok
             \/ engineUp
             \/ ~g_serviceRunning


\* C28: the body of every response to GET /status has the engine metadata
\* (sample_rate, buffer_size, client_name) either complete or not at all,
\* no empty member and no brace before its end.
C28_StatusBodyWellFormed ==
    \A w \in Handlers :
        (ctx[w] = "respond" /\ resp[w].kind = "status") =>
            LET keys == Range(resp[w].keys)
                info == {"sample_rate", "buffer_size", "client_name"} IN
            /\ (keys \cap info = {} \/ info \subseteq keys)
            /\ "" \notin keys
            /\ "}" \notin keys


\* C29: a valid POST /connect or /disconnect whose engine step finds no
\* handle is answered with success:false and the error "JACK not running".
C29_NoHandleIsEngineUnavailable ==
    [][\A w \in Handlers : \A k \in {"connect", "disconnect"} :
        (Answers(w, k) /\ entry[w].client = 0) =>
            /\ ~resp'[w].ok
            /\ resp'[w].kind = "notrunning"]_vars


\* C30: every engine call other than jack_client_open is made on a handle
\* that is not null and has not been closed.
C30_EngineCallsOnOpenHandle ==
    \A t \in Threads :
        (InEngine(t) /\ pc[t] # "open") => (hnd[t] # 0 /\ hnd[t] \in live)

\* between the watchdog's shutdown() and its initialize(), a worker's
\* operation has run without a handle
C30_Witness ==
    /\ ctx[Main] = "reinit" /\ pc[Main] = "lock"
    /\ ctx[Server] = "op2" /\ pc[Server] = "ret"
    /\ entry[Server].client = 0
    /\ g_jackClient = 0



\* C31: in every reachable state in which g_jackMutex is free, g_jackRunning
\* true implies that g_jackClient is not null.
C31_RunningImpliesHandle ==
    (mutexOwner = None /\ g_jackRunning) => g_jackClient # 0

\* initialize() has returned true and released the mutex with the flag set
C31_Witness ==
    /\ mutexOwner = None
    /\ g_jackRunning
    /\ g_jackClient # 0
    /\ \E t \in Threads : Returned(t, "initialize") /\ ret[t].ok



\* jackShutdownCallback has run for the handle g_jackClient points to: the
\* handle is open, its callbacks were registered, and no notification is
\* armed or pending for it any more
CallbackRan ==
    /\ g_jackClient # 0
    /\ g_jackClient \in live
    /\ cb = "none"
    /\ \A t \in Threads : pc[t] # "callbacks"

\* C32: once jackShutdownCallback has run for the current handle, the manager
\* does not report Connected for it again: g_jackRunning is not true and
\* isRunning does not return true until shutdown() and a successful
\* initialize() have replaced the handle.
C32_NoReconnectOnNotifiedHandle ==
    CallbackRan =>
        /\ ~g_jackRunning
        /\ \A t \in Threads : Returned(t, "isRunning") => ~ret[t].ok



\* the requests of a handler that reads: GET on /health, /status, /ports or
\* /connections, a request no branch of processRequest matches, and OPTIONS
ReadOnlyRequest(r) ==
    \/ r.method = "OPTIONS"
    \/ r.method = "GET" /\ r.path \in {"/health", "/status", "/ports", "/connections"}
    \/ r # NoReq /\ Kind(r) = "notfound"

\* the request worker w is handling during a step
HandledBy(w) == IF req[w] # NoReq THEN req[w] ELSE req'[w]
WorkerStep(w) == pc'[w] # pc[w] \/ ctx'[w] # ctx[w]

\* C33: no step of a worker that handles GET /health, /status, /ports,
\* /connections, a not-found request or OPTIONS changes the engine's
\* connection set or opens or closes the handle; a worker that handles
\* OPTIONS, on any path, makes no engine call and never takes g_jackMutex.
C33_ReadHandlersLeaveEngineAlone ==
    [][\A w \in Handlers :
        (WorkerStep(w) /\ ReadOnlyRequest(HandledBy(w))) =>
            /\ conns' = conns
            /\ live' = live
            /\ g_jackClient' = g_jackClient
            /\ HandledBy(w).method = "OPTIONS" =>
                  /\ pc[w] = "idle" /\ pc'[w] = "idle"
                  /\ mutexOwner' # w]_vars

\* GET /connections has been answered from an engine that holds a connection
C33_Witness ==
    /\ ctx[Server] = "respond"
    /\ req[Server].method = "GET" /\ req[Server].path = "/connections"
    /\ resp[Server].kind = "connections"
    /\ conns # {}



\* C34: over HttpServer::start with its failure paths, stop and the
\* destructor, closesocket is called at most once per socket created and
\* WSACleanup at most once per successful WSAStartup.
C34_SocketAndLibraryReleasedOnce ==
    /\ nClosesocket <= nSocket
    /\ nWSACleanup <= nWSAStartup



\* C35: during shutdown HttpServer::stop is never executed by the thread of
\* consoleHandler and by main at the same time (at most one thread joins the
\* accept thread), and g_server.reset() does not destroy the server while
\* the handler is still inside stop().
C35_StopRunsInOneThread ==
    /\ ~JoinedTwice
    /\ ctx[Main] \in {"final", "exited"} => handlerPc # "join"



\* ---- the Windows-container variant: src/jack-bridge/src/main-windows.cpp ----
\* The engine is the one above (engineUp, live, alive, conns, cb). A thread
\* takes one step per lock acquisition, per engine call and per read of
\* jack_client outside the lock.

\* the handlers of processRequest that call checkJackConnection, and "other"
\* for the branches that do not (OPTIONS, not found, a body check that fails)
WinKinds == {"health", "status", "ports", "connections",
             "connect", "disconnect", "clear", "other"}

\* the handle values jack_client_open can return
WinFresh ==
    LET free == Handles \ (live \cup {jack_client} \cup {winHnd[t] : t \in WinThreads}) IN
    {h \in free : \A g \in free : h <= g}

WinGoto(t, p) == winPc' = [winPc EXCEPT ![t] = p]
WinUse(t, h) == winHnd' = [winHnd EXCEPT ![t] = h]

\* main up to the service loop: the start-up wait opens and closes a test
\* client of its own; g_server->start() succeeds or main returns 1
WinMainStart ==
    /\ winPc[Main] = "start"
    /\ \E ok \in BOOLEAN : WinGoto(Main, IF ok THEN "loop" ELSE "aborted")
    /\ UNCHANGED <<jack_client, jack_running, jack_mutex, g_running, winReq, winHnd, winRet>>
    /\ UNCHANGED <<mgrVars, thrVars, ctx, req, resp, statusCheckCounter, g_serviceRunning,
                   running, serverThread, handlerPc, sockVars, cmdVars, timeVars, engVars>>

\* the service loop's periodic report: lock_guard on jack_mutex ...
WinMainLock ==
    /\ winPc[Main] = "loop"
    /\ g_running
    /\ jack_mutex = None
    /\ jack_mutex' = Main
    /\ WinGoto(Main, "report")
    /\ UNCHANGED <<jack_client, jack_running, g_running, winReq, winHnd, winRet>>
    /\ UNCHANGED <<mgrVars, thrVars, ctx, req, resp, statusCheckCounter, g_serviceRunning,
                   running, serverThread, handlerPc, sockVars, cmdVars, timeVars, engVars>>

\* ... jack_ok = jack_running.load(), and the lock is released
WinMainReport ==
    /\ winPc[Main] = "report"
    /\ jack_mutex' = None
    /\ winRet' = [winRet EXCEPT ![Main] = jack_running]
    /\ WinGoto(Main, "loop")
    /\ UNCHANGED <<jack_client, jack_running, g_running, winReq, winHnd>>
    /\ UNCHANGED <<mgrVars, thrVars, ctx, req, resp, statusCheckCounter, g_serviceRunning,
                   running, serverThread, handlerPc, sockVars, cmdVars, timeVars, engVars>>

\* the loop ends when g_running is false; main's cleanup tests jack_client
\* before it takes the lock
WinMainLeave ==
    /\ winPc[Main] = "loop"
    /\ ~g_running
    /\ WinGoto(Main, IF jack_client # 0 THEN "close_lock" ELSE "exited")
    /\ UNCHANGED <<jack_client, jack_running, jack_mutex, g_running, winReq, winHnd, winRet>>
    /\ UNCHANGED <<mgrVars, thrVars, ctx, req, resp, statusCheckCounter, g_serviceRunning,
                   running, serverThread, handlerPc, sockVars, cmdVars, timeVars, engVars>>

\* ConsoleHandler on a thread of the system: g_running = false, g_server->stop()
\* if the server exists, then the test of jack_client before the lock
ConsoleHandler ==
    /\ winPc[Console] = "idle"
    /\ winPc[Main] \notin {"exited", "aborted"}
    /\ g_running
    /\ g_running' = FALSE
    /\ WinGoto(Console, IF jack_client # 0 THEN "close_lock" ELSE "done")
    /\ UNCHANGED <<jack_client, jack_running, jack_mutex, winReq, winHnd, winRet>>
    /\ UNCHANGED <<mgrVars, thrVars, ctx, req, resp, statusCheckCounter, g_serviceRunning,
                   running, serverThread, handlerPc, sockVars, cmdVars, timeVars, engVars>>

\* main or ConsoleHandler: lock_guard on jack_mutex; the argument of
\* jack_client_close is read under the lock
WinCloseLock(t) ==
    /\ winPc[t] = "close_lock"
    /\ jack_mutex = None
    /\ jack_mutex' = t
    /\ WinUse(t, jack_client)
    /\ WinGoto(t, "close")
    /\ UNCHANGED <<jack_client, jack_running, g_running, winReq, winRet>>
    /\ UNCHANGED <<mgrVars, thrVars, ctx, req, resp, statusCheckCounter, g_serviceRunning,
                   running, serverThread, handlerPc, sockVars, cmdVars, timeVars, engVars>>

\* jack_client_close(jack_client); jack_client = nullptr; the lock is released
WinClose(t) ==
    /\ winPc[t] = "close"
    /\ live' = live \ {winHnd[t]}
    /\ alive' = alive \ {winHnd[t]}
    /\ cb' = IF winHnd[t] \in live THEN "none" ELSE cb
    /\ jack_client' = 0
    /\ jack_mutex' = None
    /\ WinUse(t, 0)
    /\ WinGoto(t, IF t = Main THEN "exited" ELSE "done")
    /\ UNCHANGED <<jack_running, g_running, winReq, winRet>>
    /\ UNCHANGED <<mgrVars, thrVars, ctx, req, resp, statusCheckCounter, g_serviceRunning,
                   running, serverThread, handlerPc, sockVars, cmdVars, timeVars,
                   engineUp, conns>>

\* run() accepts a connection and handleRequest, detached, routes the request
WinAccept(w) ==
    /\ winPc[w] = "idle"
    /\ winPc[Main] \in {"loop", "report"}
    /\ g_running
    /\ \E k \in WinKinds :
         /\ winReq' = [winReq EXCEPT ![w] = k]
         /\ WinGoto(w, IF k = "other" THEN "send" ELSE "check_lock")
    /\ UNCHANGED <<jack_client, jack_running, jack_mutex, g_running, winHnd, winRet>>
    /\ UNCHANGED <<mgrVars, thrVars, ctx, req, resp, statusCheckCounter, g_serviceRunning,
                   running, serverThread, handlerPc, sockVars, cmdVars, timeVars, engVars>>

\* checkJackConnection: lock_guard on jack_mutex
WinCheckLock(w) ==
    /\ winPc[w] = "check_lock"
    /\ jack_mutex = None
    /\ jack_mutex' = w
    /\ WinGoto(w, IF jack_client = 0 THEN "open" ELSE "probe")
    /\ WinUse(w, jack_client)
    /\ UNCHANGED <<jack_client, jack_running, g_running, winReq, winRet>>
    /\ UNCHANGED <<mgrVars, thrVars, ctx, req, resp, statusCheckCounter, g_serviceRunning,
                   running, serverThread, handlerPc, sockVars, cmdVars, timeVars, engVars>>

\* jack_client = jack_client_open(...); null: jack_running = false, return
\* false; otherwise the callbacks are set and jack_activate is entered
WinCheckOpen(w) ==
    /\ winPc[w] = "open"
    /\ IF OpenOk
         THEN \E h \in WinFresh :
                /\ live' = live \cup {h}
                /\ alive' = alive \cup {h}
                /\ cb' = "armed"
                /\ jack_client' = h
                /\ WinUse(w, h)
                /\ WinGoto(w, "activate")
                /\ UNCHANGED <<jack_running, jack_mutex, winRet>>
         ELSE /\ jack_running' = FALSE
              /\ jack_mutex' = None
              /\ winRet' = [winRet EXCEPT ![w] = FALSE]
              /\ WinGoto(w, "checked")
              /\ UNCHANGED <<jack_client, winHnd, live, alive, cb>>
    /\ UNCHANGED <<g_running, winReq>>
    /\ UNCHANGED <<mgrVars, thrVars, ctx, req, resp, statusCheckCounter, g_serviceRunning,
                   running, serverThread, handlerPc, sockVars, cmdVars, timeVars,
                   engineUp, conns>>

\* jack_activate returns; nonzero: jack_client_close, jack_client = nullptr,
\* jack_running = false, return false
WinCheckActivate(w) ==
    /\ winPc[w] = "activate"
    /\ IF ActivateOk(winHnd[w])
         THEN /\ WinGoto(w, "probe")
              /\ UNCHANGED <<jack_client, jack_running, jack_mutex, winHnd, winRet,
                             live, alive, cb>>
         ELSE /\ live' = live \ {winHnd[w]}
              /\ alive' = alive \ {winHnd[w]}
              /\ cb' = "none"
              /\ jack_client' = 0
              /\ jack_running' = FALSE
              /\ jack_mutex' = None
              /\ winRet' = [winRet EXCEPT ![w] = FALSE]
              /\ WinUse(w, 0)
              /\ WinGoto(w, "checked")
    /\ UNCHANGED <<g_running, winReq>>
    /\ UNCHANGED <<mgrVars, thrVars, ctx, req, resp, statusCheckCounter, g_serviceRunning,
                   running, serverThread, handlerPc, sockVars, cmdVars, timeVars,
                   engineUp, conns>>

\* jack_get_sample_rate(jack_client) returns: jack_running = (sr > 0), which
\* is returned; the handle is kept either way
WinCheckProbe(w) ==
    /\ winPc[w] = "probe"
    /\ jack_running' = ProbeOk(winHnd[w])
    /\ winRet' = [winRet EXCEPT ![w] = ProbeOk(winHnd[w])]
    /\ jack_mutex' = None
    /\ WinUse(w, 0)
    /\ WinGoto(w, "checked")
    /\ UNCHANGED <<jack_client, g_running, winReq>>
    /\ UNCHANGED <<mgrVars, thrVars, ctx, req, resp, statusCheckCounter, g_serviceRunning,
                   running, serverThread, handlerPc, sockVars, cmdVars, timeVars, engVars>>

\* the handler has the result of checkJackConnection. getJackStatus tests
\* jack_client and calls jack_get_sample_rate(jack_client) without the lock;
\* the other handlers that use the engine take the lock again.
WinAfterCheck(w) ==
    /\ winPc[w] = "checked"
    /\ LET k == winReq[w] IN
         IF k = "health" \/ ~winRet[w]
         THEN WinGoto(w, "send") /\ UNCHANGED winHnd
         ELSE IF k = "status"
         THEN IF jack_client # 0
                THEN WinUse(w, jack_client) /\ WinGoto(w, "sample_rate")
                ELSE WinGoto(w, "send") /\ UNCHANGED winHnd
         ELSE WinGoto(w, "op_lock") /\ UNCHANGED winHnd
    /\ UNCHANGED <<jack_client, jack_running, jack_mutex, g_running, winReq, winRet>>
    /\ UNCHANGED <<mgrVars, thrVars, ctx, req, resp, statusCheckCounter, g_serviceRunning,
                   running, serverThread, handlerPc, sockVars, cmdVars, timeVars, engVars>>

\* getJackStatus: jack_get_sample_rate has returned; jack_client is read
\* again for jack_get_buffer_size
WinStatusSampleRate(w) ==
    /\ winPc[w] = "sample_rate"
    /\ WinUse(w, jack_client)
    /\ WinGoto(w, "buffer_size")
    /\ UNCHANGED <<jack_client, jack_running, jack_mutex, g_running, winReq, winRet>>
    /\ UNCHANGED <<mgrVars, thrVars, ctx, req, resp, statusCheckCounter, g_serviceRunning,
                   running, serverThread, handlerPc, sockVars, cmdVars, timeVars, engVars>>

WinStatusBufferSize(w) ==
    /\ winPc[w] = "buffer_size"
    /\ WinUse(w, 0)
    /\ WinGoto(w, "send")
    /\ UNCHANGED <<jack_client, jack_running, jack_mutex, g_running, winReq, winRet>>
    /\ UNCHANGED <<mgrVars, thrVars, ctx, req, resp, statusCheckCounter, g_serviceRunning,
                   running, serverThread, handlerPc, sockVars, cmdVars, timeVars, engVars>>

\* getJackPorts, getJackConnections, handleConnect, handleDisconnect,
\* handleClearAll after the check: lock_guard on jack_mutex, then the engine
\* call on jack_client as it is now
WinOpLock(w) ==
    /\ winPc[w] = "op_lock"
    /\ jack_mutex = None
    /\ jack_mutex' = w
    /\ WinUse(w, jack_client)
    /\ WinGoto(w, "op")
    /\ UNCHANGED <<jack_client, jack_running, g_running, winReq, winRet>>
    /\ UNCHANGED <<mgrVars, thrVars, ctx, req, resp, statusCheckCounter, g_serviceRunning,
                   running, serverThread, handlerPc, sockVars, cmdVars, timeVars, engVars>>

\* the engine call returns, the body is built and the lock is released
WinOp(w) ==
    /\ winPc[w] = "op"
    /\ LET h == winHnd[w]
            k == winReq[w] IN
         conns' = IF h \notin alive THEN conns
                  ELSE IF k = "connect" THEN conns \cup {1}
                  ELSE IF k = "disconnect" THEN conns \ {1}
                  ELSE IF k = "clear" THEN {}
                  ELSE conns
    /\ jack_mutex' = None
    /\ WinUse(w, 0)
    /\ WinGoto(w, "send")
    /\ UNCHANGED <<jack_client, jack_running, g_running, winReq, winRet>>
    /\ UNCHANGED <<mgrVars, thrVars, ctx, req, resp, statusCheckCounter, g_serviceRunning,
                   running, serverThread, handlerPc, sockVars, cmdVars, timeVars,
                   engineUp, live, alive, cb>>

\* send and closesocket
WinSend(w) ==
    /\ winPc[w] = "send"
    /\ winReq' = [winReq EXCEPT ![w] = "none"]
    /\ WinGoto(w, "idle")
    /\ UNCHANGED <<jack_client, jack_running, jack_mutex, g_running, winHnd, winRet>>
    /\ UNCHANGED <<mgrVars, thrVars, ctx, req, resp, statusCheckCounter, g_serviceRunning,
                   running, serverThread, handlerPc, sockVars, cmdVars, timeVars, engVars>>

\* runs on the engine's notification thread, without jack_mutex
jack_shutdown_callback ==
    /\ cb = "pending"
    /\ winPc[Main] \notin {"exited", "aborted"}
    /\ cb' = "none"
    /\ jack_running' = FALSE
    /\ UNCHANGED <<jack_client, jack_mutex, g_running, winPc, winReq, winHnd, winRet>>
    /\ UNCHANGED <<mgrVars, thrVars, ctx, req, resp, statusCheckCounter, g_serviceRunning,
                   running, serverThread, handlerPc, sockVars, cmdVars, timeVars,
                   engineUp, live, alive, conns>>

WinMainStep ==
    WinMainStart \/ WinMainLock \/ WinMainReport \/ WinMainLeave \/ WinCloseLock(Main)
        \/ WinClose(Main)
WinConsoleStep == WinCloseLock(Console) \/ WinClose(Console)
WinWorkerStep(w) ==
    \/ WinAccept(w) \/ WinCheckLock(w) \/ WinCheckOpen(w) \/ WinCheckActivate(w)
    \/ WinCheckProbe(w) \/ WinAfterCheck(w) \/ WinStatusSampleRate(w)
    \/ WinStatusBufferSize(w) \/ WinOpLock(w) \/ WinOp(w) \/ WinSend(w)

WinNext ==
    \/ WinMainStart \/ WinMainLock \/ WinMainReport \/ WinMainLeave
    \/ ConsoleHandler
    \/ \E t \in {Main, Console} : WinCloseLock(t)
    \/ \E t \in {Main, Console} : WinClose(t)
    \/ \E w \in Workers : WinAccept(w)
    \/ \E w \in Workers : WinCheckLock(w)
    \/ \E w \in Workers : WinCheckOpen(w)
    \/ \E w \in Workers : WinCheckActivate(w)
    \/ \E w \in Workers : WinCheckProbe(w)
    \/ \E w \in Workers : WinAfterCheck(w)
    \/ \E w \in Workers : WinStatusSampleRate(w)
    \/ \E w \in Workers : WinStatusBufferSize(w)
    \/ \E w \in Workers : WinOpLock(w)
    \/ \E w \in Workers : WinOp(w)
    \/ \E w \in Workers : WinSend(w)
    \/ EngineDown \/ EngineUp \/ jack_shutdown_callback

WinSpec == Init /\ [][WinNext]_vars

\* every thread that can take a step eventually takes one, the engine's
\* notification is delivered, and requests keep arriving while the server runs
WinFairness ==
    /\ SF_vars(WinMainStep)
    /\ SF_vars(WinConsoleStep)
    /\ \A w \in Workers : SF_vars(WinWorkerStep(w))
    /\ SF_vars(jack_shutdown_callback)
WinFairSpec == WinSpec /\ WinFairness



\* worker w is inside an engine call of a request handler or of
\* checkJackConnection on the handle winHnd[w]
WinInEngine(w) == winPc[w] \in {"activate", "probe", "sample_rate", "buffer_size", "op"}

\* C36: in the Windows-container variant every engine call of a request
\* handler is made while the handler holds jack_mutex, on a handle that is
\* not null and not closed, for every interleaving with ConsoleHandler.
C36_WinEngineCallsLockedOnOpenHandle ==
    \A w \in Workers :
        WinInEngine(w) =>
            /\ jack_mutex = w
            /\ winHnd[w] # 0
            /\ winHnd[w] \in live

\* C37: in the Windows-container variant jack_client_close is never called
\* on null or on a handle already closed, and once main has returned and
\* every other thread has finished, no handle is left open.
C37_WinHandleClosedExactlyOnce ==
    /\ \A t \in {Main, Console} :
          winPc[t] = "close" => (winHnd[t] # 0 /\ winHnd[t] \in live)
    /\ (/\ winPc[Main] = "exited"
        /\ winPc[Console] = "done"
        /\ \A w \in Workers : winPc[w] = "idle") => live = {}

\* a probe of checkJackConnection has failed on a handle that is kept
WinProbeFailedOnHandle ==
    \E w \in Workers : winPc[w] = "checked" /\ ~winRet[w] /\ jack_client # 0
\* a probe of checkJackConnection reports running
WinProbeReportsRunning ==
    \E w \in Workers : winPc[w] = "checked" /\ winRet[w]

\* C38: in the Windows-container variant, after a probe has failed on an
\* existing handle, if the engine is reachable and stays so and nobody shuts
\* the service down, a later probe reports running.
C38_WinRecoversFromLostEngine ==
    (WinProbeFailedOnHandle /\ engineUp)
        ~> (WinProbeReportsRunning \/ ~engineUp \/ ~g_running)



\* ---- the subprocess variant: src/jack-bridge/src/main.cpp, POST /connect ----
\* A text is a sequence of words; find() looks for a word in it.
MaxOut == 2
CmdWords == {"error", "already connected", "other"}
CmdTexts == UNION {[1..n -> CmdWords] : n \in 0..MaxOut}
Find(text, word) == \E i \in DOMAIN text : text[i] = word

\* a run of jack_connect.exe: whether popen started it, whether the engine
\* made the connection, and what the command wrote to its standard output
CmdRuns ==
    {r \in [started : BOOLEAN, established : BOOLEAN, out : CmdTexts] :
        ~r.started => (~r.established /\ r.out = <<>>)}
\* a request as handleConnect reads it: whether a blank line separates a
\* body, and whether the body holds "source" and "destination"
CmdRequests ==
    {q \in [sep : BOOLEAN, source : BOOLEAN, destination : BOOLEAN] :
        ~q.sep => (~q.source /\ ~q.destination)}

\* executeCommand: "COMMAND_FAILED" without a pipe, else what fgets read
executeCommand(r) == IF ~r.started THEN <<"COMMAND_FAILED">> ELSE r.out

\* the body handleConnect returns
ConnectBody(q, r) ==
    IF ~q.sep THEN [kind |-> "nobody", success |-> FALSE, already_connected |-> FALSE]
    ELSE IF ~q.source \/ ~q.destination
    THEN [kind |-> "nofield", success |-> FALSE, already_connected |-> FALSE]
    ELSE LET output == executeCommand(r) IN
         [kind |-> "connect",
          success |-> ~Find(output, "error"),
          already_connected |-> Find(output, "already connected")]

handleConnect ==
    /\ cmdBody = NoBody
    /\ cmdBody' = ConnectBody(cmdReq, cmdRun)
    /\ UNCHANGED <<cmdRun, cmdReq, winVars, timeVars>>
    /\ UNCHANGED <<mgrVars, thrVars, ctx, req, resp, statusCheckCounter, g_serviceRunning,
                   running, serverThread, handlerPc, sockVars, engVars>>

CmdInit ==
    /\ LocalInit /\ WinInit /\ TimeIdle
    /\ cmdRun \in CmdRuns
    /\ cmdReq \in CmdRequests
    /\ cmdBody = NoBody
CmdNext == handleConnect
CmdSpec == CmdInit /\ [][CmdNext]_vars

\* C39: in the subprocess variant a POST /connect with source and
\* destination is answered with success:false whenever the engine command
\* did not establish the connection, also when it could not be started or
\* wrote no output.
C39_CmdFailureIsReported ==
    (cmdBody.kind = "connect" /\ ~cmdRun.established) => ~cmdBody.success



\* ---- getCurrentTimestamp: the fraction of the second ----
\* now is ms.count(), the milliseconds modulo MsPerSecond; the digits after
\* the "." are kept as a sequence of decimal digits
MsPerSecond == 1000
FractionWidth == 3

RECURSIVE to_string(_)
\* std::to_string of a non-negative integer: its decimal digits, no padding
to_string(n) == IF n < 10 THEN <<n>> ELSE Append(to_string(n \div 10), n % 10)

RECURSIVE SetW(_, _)
\* operator<< under std::setfill('0') and std::setw(w): zeros on the left up
\* to width w, nothing cut
SetW(d, w) == IF Len(d) >= w THEN d ELSE SetW(<<0>> \o d, w)

\* jack-bridge-local: "." + std::to_string(ms.count()) + "Z"
LocalFraction(ms) == to_string(ms)
\* main-windows.cpp: "." << setfill('0') << setw(3) << ms.count() << "Z"
WinFraction(ms) == SetW(to_string(ms), FractionWidth)

getCurrentTimestamp ==
    /\ stamp = NoStamp
    /\ stamp' = [local |-> LocalFraction(now), windows |-> WinFraction(now)]
    /\ UNCHANGED <<now, winVars, cmdVars>>
    /\ UNCHANGED <<mgrVars, thrVars, ctx, req, resp, statusCheckCounter, g_serviceRunning,
                   running, serverThread, handlerPc, sockVars, engVars>>

TimeInit ==
    /\ LocalInit /\ WinInit /\ CmdIdle
    /\ now \in 0..(MsPerSecond - 1)
    /\ stamp = NoStamp
TimeNext == getCurrentTimestamp
TimeSpec == TimeInit /\ [][TimeNext]_vars

RECURSIVE ReadFraction(_)
\* the digits after the point read as a decimal fraction, in units of
\* 10^-Len(d)
ReadFraction(d) == IF d = <<>> THEN 0 ELSE 10 * ReadFraction(SubSeq(d, 1, Len(d) - 1)) + d[Len(d)]
RECURSIVE Pow10(_)
Pow10(n) == IF n = 0 THEN 1 ELSE 10 * Pow10(n - 1)
\* fraction a reads as less than fraction b
ReadsLess(a, b) == ReadFraction(a) * Pow10(Len(b)) < ReadFraction(b) * Pow10(Len(a))

\* C40: for every ms in 0..999 the fraction getCurrentTimestamp emits has
\* exactly three digits, and of two instants of the same second the earlier
\* one reads as the smaller fraction, in jack-bridge-local and in the
\* Windows-container variant.
C40_FractionIsThreeDigits ==
    stamp # NoStamp =>
        /\ Len(stamp.local) = FractionWidth
        /\ Len(stamp.windows) = FractionWidth
        /\ \A ms \in 0..(MsPerSecond - 1) :
              now < ms => /\ ReadsLess(stamp.local, LocalFraction(ms))
                          /\ ReadsLess(stamp.windows, WinFraction(ms))
====
